---- MODULE Spec2Model ----
(***************************************************************************)
(* The analysis job orchestrator of the AI analysis service                *)
(* (src/services/analysis_service.py) with its callers in                  *)
(* src/api/analysis_router.py and its three adapters (redis_cache.py,      *)
(* database.py, message_queue.py).                                         *)
(*                                                                         *)
(* The service runs on one asyncio event loop.  A coroutine runs without   *)
(* interruption until it awaits real I/O; an await of a coroutine that     *)
(* returns without I/O (an adapter that is not connected is skipped) does  *)
(* not yield.  The variable running names the task that holds the loop:    *)
(* a step that performs I/O releases it, a step that performs none keeps   *)
(* it, so that exactly the interleavings of the event loop are explored.   *)
(***************************************************************************)
EXTENDS Integers, FiniteSets, Sequences, TLC

(* ---------------------------------------------------------------- bounds *)
MaxJobs == 1
MaxCancellers == 2
MaxFaults == 1
MaxUpdates == 2
MaxDelivers == 1
MaxClock == 3
MaxMessages == 2
MaxTasks == 2

Ids == 1..MaxJobs
Cancellers == 1..MaxCancellers

(* ------------------------------------------------------- program values *)
Statuses == {"pending", "processing", "completed", "failed", "cancelled"}
Terminal == {"completed", "failed", "cancelled"}

\* Progress values a worker reports; -1 stands for Python's None.
NoProgress == -1
ProgressArgs == {NoProgress, 10, 100}

\* Error messages; "None" stands for Python's None.
NoError == "None"
ErrorArgs == {NoError, "E1"}

\* Result values.  kind "none" is None, kind "model" a pydantic result object,
\* kind "dict" a plain mapping; body "empty" with kind "dict" is {}.
NoResult == [kind |-> "none", body |-> "none"]
EmptyDict == [kind |-> "dict", body |-> "empty"]
ResultArgs == {NoResult, [kind |-> "model", body |-> "R"]}

\* Python truthiness of a results argument: None and {} are falsy.
Truthy(r) == r \notin {NoResult, EmptyDict}

\* _to_jsonable: primitives and dicts map to themselves, a pydantic model to
\* the dict of its model_dump.
to_jsonable(r) ==
    IF r.kind = "model" THEN [kind |-> "dict", body |-> r.body] ELSE r

\* _serialize_analysis_result: a dict at top level is returned as it is.
serialize_analysis_result(r) == to_jsonable(r)

\* json.dumps on the way into redis and json.loads on the way out.
json_dumps(d) == [kind |-> "json", body |-> d.body]
json_loads(s) == [kind |-> "dict", body |-> s.body]

EvidenceIds == {"EVID-1"}
AnalysisTypes == {"document"}
NoEvidence == ""

(* ------------------------------------------------- fields of a result dict *)
\* Raw confidence scores are counted in eighths, which floating point holds
\* exactly: e stands for the number e / 8.
ConfUnit == 8
NoNumber == [num |-> FALSE, e |-> 0]
Number(e) == [num |-> TRUE, e |-> e]
ConfScores == {NoNumber} \cup {Number(e) : e \in {-8, 0, 3, 7, 8, 9, 20, 660, 804, 2000}}

\* A per-media section of a result: absent, a value that is not a dict, or a
\* dict.  has_flag says whether the dict holds its indicator key
\* (is_manipulated, is_deepfake, is_authentic), flag is the value of the key,
\* type whether manipulation_type is set, confidence the section's own
\* confidence in hundredths.
Absent == [kind |-> "absent", has_flag |-> FALSE, flag |-> FALSE, type |-> FALSE,
           confidence |-> 0]
NotADict == [kind |-> "text", has_flag |-> FALSE, flag |-> FALSE, type |-> FALSE,
             confidence |-> 0]
Section(h, f, t, c) == [kind |-> "dict", has_flag |-> h, flag |-> f, type |-> t,
                        confidence |-> c]

ImageSections == {Absent, NotADict} \cup {Section(TRUE, f, t, 90) : f, t \in BOOLEAN}
VideoSections == {Absent} \cup {Section(TRUE, f, FALSE, 70) : f \in BOOLEAN}
DocumentSections == {Absent, NotADict, Section(FALSE, FALSE, FALSE, 82)}
                        \cup {Section(TRUE, f, FALSE, 82) : f \in BOOLEAN}

\* The serialised results handed to send_results_to_evidence_service.
DeliverResults ==
    [confidence_score : ConfScores, manipulation_detection : ImageSections,
     deepfake_detection : VideoSections, authenticity_analysis : DocumentSections]

\* A result dict with none of the fields the packager looks at.
NoFields == [confidence_score |-> NoNumber, manipulation_detection |-> Absent,
             deepfake_detection |-> Absent, authenticity_analysis |-> Absent]

\* Outcomes of the POST to the evidence service.
HttpOutcomes == {"2xx", "status_error", "transport_error"}

NoPayload == [confidence |-> 0, anomaliesDetected |-> FALSE, findings |-> <<>>,
              metadata |-> [analysisId |-> 0, evidenceId |-> NoEvidence,
                            completedAt |-> 0, analysisType |-> "none",
                            error |-> "none"]]

(* --------------------------------------------------------- broker topology *)
MediaTypes == {"image", "video", "document", "audio"}

\* _declare_exchanges: every exchange is declared with ExchangeType.DIRECT.
ExchangeTypes == [analysis |-> "direct", results |-> "direct", dlx |-> "direct"]

\* _declare_queues: the queues.
TaskQueues == {"image.analysis.queue", "video.analysis.queue",
               "document.analysis.queue", "audio.analysis.queue"}
QueueNames == TaskQueues \cup {"analysis.results.queue", "dead.letter.queue"}

\* The task queue declared for a media type.
task_queue(t) == [image |-> "image.analysis.queue", video |-> "video.analysis.queue",
                  document |-> "document.analysis.queue",
                  audio |-> "audio.analysis.queue"][t]

\* _declare_queues: x-dead-letter-exchange and x-dead-letter-routing-key of a
\* task queue; the other queues have none.
dead_letter_args(q) ==
    IF q = "image.analysis.queue" THEN [exchange |-> "dlx", key |-> "image.analysis.failed"]
    ELSE IF q = "video.analysis.queue" THEN [exchange |-> "dlx", key |-> "video.analysis.failed"]
    ELSE IF q = "document.analysis.queue"
         THEN [exchange |-> "dlx", key |-> "document.analysis.failed"]
    ELSE IF q = "audio.analysis.queue" THEN [exchange |-> "dlx", key |-> "audio.analysis.failed"]
    ELSE [exchange |-> "none", key |-> "none"]

\* _bind_queues: queue, exchange, binding key.
Bindings ==
    {[queue |-> "image.analysis.queue", exchange |-> "analysis", key |-> "image.analysis"],
     [queue |-> "video.analysis.queue", exchange |-> "analysis", key |-> "video.analysis"],
     [queue |-> "document.analysis.queue", exchange |-> "analysis", key |-> "document.analysis"],
     [queue |-> "audio.analysis.queue", exchange |-> "analysis", key |-> "audio.analysis"],
     [queue |-> "analysis.results.queue", exchange |-> "results", key |-> "analysis.results"],
     [queue |-> "dead.letter.queue", exchange |-> "dlx", key |-> "*"]}

\* MessageQueueService.publish_analysis_task: the routing key of a media type.
task_routing_key(t) == [image |-> "image.analysis", video |-> "video.analysis",
                        document |-> "document.analysis", audio |-> "audio.analysis"][t]

\* AMQP routing: a direct exchange hands a message to the queues whose binding
\* key equals the routing key; in a topic exchange a binding key "*" would
\* match every routing key of one word.
binding_matches(type, binding_key, routing_key) ==
    IF type = "direct" THEN binding_key = routing_key
    ELSE binding_key = routing_key \/ binding_key = "#"

\* The queues a message published to exchange x with routing key k reaches.
route(x, k) ==
    {b.queue : b \in {c \in Bindings : /\ c.exchange = x
                                       /\ binding_matches(ExchangeTypes[x], c.key, k)}}

\* The broker after a message m was published to exchange x with routing key k:
\* a message that no binding matches is dropped.
published(b, m, x, k) ==
    [b EXCEPT !.queues = [q \in QueueNames |-> IF q \in route(x, k) THEN @[q] \cup {m}
                                                ELSE @[q]],
              !.dropped = IF route(x, k) = {} THEN @ \cup {m} ELSE @]

(* ---------------------------------------------------------- record shapes *)
NoJob == [exists |-> FALSE]
NoEntry == [exists |-> FALSE]
NoDoc == [exists |-> FALSE]
NotFound == [found |-> FALSE]

\* The adapters with a lazy is_ready probe: redis_cache and db_service.
LazyAdapters == {"cache", "db"}

NoTask == <<"none">>
SubmitTask == <<"submit">>
ReaderTask == <<"reader">>
WorkerTask(j) == <<"worker", j>>
CancelTask(c) == <<"cancel", c>>
DeliverTask == <<"deliver">>

VARIABLES
    active_analyses,   \* AnalysisService.active_analyses: id -> job entry or NoJob
    cacheStatus,       \* redis key status:{id}
    cacheResults,      \* redis key results:{id}
    dbRequests,        \* mongo collection analysis_requests, by analysis_id
    dbDetails,         \* mongo collection analysis_details: result documents per analysis_id
    cacheConnected,    \* RedisCacheService._connected
    dbConnected,       \* DatabaseService._connected
    mqConnected,       \* MessageQueueService._connected
    running,           \* the task that holds the event loop, or NoTask
    nextId,            \* the next id uuid4() hands out
    clock,             \* datetime.utcnow()
    faults,            \* the number of I/O operations that raised so far
    updates,           \* per id, the number of UpdateStatus calls of the worker so far
    submit,            \* the call frame of Submit
    worker,            \* per id, the call frame of the worker's UpdateStatus
    cancel,            \* per canceller, the call frame of Cancel
    reader,            \* the call frame of GetStatus / GetResult
    submitted,         \* history: outcome of Submit per id
    touched,           \* history: an UpdateStatus or Cancel was issued for the id
    cancelOk,          \* history: a Cancel of the id returned success
    completion,        \* history: completed-with-result updates per id
    deliver,           \* the call frame of Deliver
    delivers,          \* per id, the number of Deliver calls so far
    callbacks,         \* per id, the number of HTTP callbacks attempted so far
    broker,            \* the RabbitMQ broker: messages sent, queue contents, dead-lettered, dropped
    init               \* per lazy adapter: _initializing, scheduled tasks, running attempts

vars == <<active_analyses, cacheStatus, cacheResults, dbRequests, dbDetails,
          cacheConnected, dbConnected, mqConnected, running, nextId, clock, faults, updates,
          submit, worker, cancel, reader, submitted, touched, cancelOk, completion,
          deliver, delivers, callbacks, broker, init>>

stores == <<active_analyses, cacheStatus, cacheResults, dbRequests, dbDetails>>
adapters == <<cacheConnected, dbConnected, mqConnected>>
history == <<submitted, touched, cancelOk, completion, updates>>
delivery == <<deliver, delivers, callbacks>>

(* ------------------------------------------------------------ idle frames *)
IdleSubmit == [pc |-> "idle", id |-> 0, evidence_id |-> NoEvidence,
               analysis_type |-> "none", ret |-> "none", published |-> <<>>]
IdleWorker == [pc |-> "idle", status |-> "none", progress |-> NoProgress,
               error_message |-> NoError, results |-> NoResult,
               afterCancel |-> FALSE]
IdleCancel == [pc |-> "idle", id |-> 0, ret |-> FALSE, startStatus |-> "none",
               priorOk |-> FALSE, solo |-> TRUE]
\* No QueueStatus received yet.
NoQueue == [pending |-> 0, processing |-> 0, completed |-> 0, failed |-> 0,
            by_type |-> <<>>, timed |-> {}]
\* No response received yet.
NoResponse == [code |-> 0, detail |-> "none", body |-> NoResult]
IdleReader == [pc |-> "idle", op |-> "none", id |-> 0, status |-> NotFound,
               ret |-> NoResult, afterSubmit |-> FALSE, expect |-> NoResult,
               known |-> FALSE, unknownSeen |-> NoResponse, expectError |-> NoError,
               afterCancel |-> FALSE, queue |-> NoQueue]
NoCompletion == [issued |-> 0, done |-> FALSE, r |-> NoResult]
IdleDeliver == [pc |-> "idle", id |-> 0, evidence_id |-> NoEvidence, results |-> NoFields,
                confidence_percent |-> NoNumber, mq |-> "none", http |-> "none",
                payload |-> NoPayload]

Init ==
    /\ active_analyses = [j \in Ids |-> NoJob]
    /\ cacheStatus = [j \in Ids |-> NoEntry]
    /\ cacheResults = [j \in Ids |-> NoResult]
    /\ dbRequests = [j \in Ids |-> NoDoc]
    /\ dbDetails = [j \in Ids |-> {}]
    /\ cacheConnected \in BOOLEAN
    /\ dbConnected \in BOOLEAN
    /\ mqConnected \in BOOLEAN
    /\ running = NoTask
    /\ nextId = 1
    /\ clock = 1
    /\ faults = 0
    /\ updates = [j \in Ids |-> 0]
    /\ submit = IdleSubmit
    /\ worker = [j \in Ids |-> IdleWorker]
    /\ cancel = [c \in Cancellers |-> IdleCancel]
    /\ reader = IdleReader
    /\ submitted = [j \in Ids |-> "no"]
    /\ touched = [j \in Ids |-> FALSE]
    /\ cancelOk = [j \in Ids |-> FALSE]
    /\ completion = [j \in Ids |-> NoCompletion]
    /\ deliver = IdleDeliver
    /\ delivers = [j \in Ids |-> 0]
    /\ callbacks = [j \in Ids |-> 0]
    /\ broker = [sent |-> {}, queues |-> [q \in QueueNames |-> {}], dead |-> {},
                 dropped |-> {}]
    /\ init = [a \in LazyAdapters |->
                 [initializing |-> FALSE, scheduled |-> 0, attempts |-> 0, skipped |-> FALSE,
                                  probed |-> "none"]]

\* A task may take a step when the loop is free or it holds the loop itself.
MayRun(t) == running \in {NoTask, t}
\* After a step: the loop is released if the step awaited I/O, kept otherwise.
After(t, io) == IF io THEN NoTask ELSE t

(* ----------------------------------------------------- adapter readiness *)
db_ready == dbConnected
cache_ready == cacheConnected
mq_ready == mqConnected

\* The initialisation task scheduled by an is_ready probe completes.
CacheConnect ==
    /\ running = NoTask
    /\ ~cacheConnected
    /\ cacheConnected' = TRUE
    /\ UNCHANGED <<init, broker, delivery, faults, stores, dbConnected, mqConnected, running, nextId, clock,
                   submit, worker, cancel, reader, history>>

DbConnect ==
    /\ running = NoTask
    /\ ~dbConnected
    /\ dbConnected' = TRUE
    /\ UNCHANGED <<init, broker, delivery, faults, stores, cacheConnected, mqConnected, running, nextId, clock,
                   submit, worker, cancel, reader, history>>

\* Time passes: datetime.utcnow() returns a later value from now on.
Tick ==
    /\ clock < MaxClock
    /\ clock' = clock + 1
    /\ UNCHANGED <<init, broker, delivery, faults, stores, adapters, running, nextId,
                   submit, worker, cancel, reader, history>>

\* Outcomes of one I/O operation on an adapter: it succeeds or raises when the
\* adapter is connected; it is not attempted when the adapter is not.
Io(connected) == IF connected /\ faults < MaxFaults THEN BOOLEAN ELSE {connected}

\* The fault count after an I/O operation with outcome ok.
Fault(connected, ok) == faults' = IF connected /\ ~ok THEN faults + 1 ELSE faults

(* --------------------------------------------------------- stored shapes *)
\* The entry submit_analysis puts into active_analyses.
new_job(e, t) ==
    [exists |-> TRUE, evidence_id |-> e, analysis_type |-> t, status |-> "pending",
     progress |-> 0, started_at |-> 0, completed_at |-> 0,
     error_message |-> NoError, results |-> NoResult]

\* The document _store_analysis_request inserts.
new_doc(e) ==
    [exists |-> TRUE, evidence_id |-> e, status |-> "pending",
     progress |-> NoProgress, error_message |-> NoError]

\* The value _cache_analysis_status stores under status:{id}.
status_data(st, pr, e) ==
    [exists |-> TRUE, status |-> st, progress |-> pr, evidence_id |-> e]

\* progress or 0
or_zero(pr) == IF pr = NoProgress THEN 0 ELSE pr

\* A variant of the update below that leaves the progress of the entry alone.
update_registry_status_only(job, st, pr, err, now) ==
    [job EXCEPT
       !.status = st,
       !.error_message = IF err # NoError THEN err ELSE @,
       !.started_at = IF st = "processing" /\ @ = 0 THEN now ELSE @,
       !.completed_at = IF st \in {"completed", "failed"} THEN now ELSE @]

\* A variant of the update below that stamps started_at on every update to
\* processing.
update_registry_restamp(job, st, pr, err, now) ==
    [job EXCEPT
       !.status = st,
       !.progress = IF pr # NoProgress THEN pr ELSE @,
       !.error_message = IF err # NoError THEN err ELSE @,
       !.started_at = IF st = "processing" THEN now ELSE @,
       !.completed_at = IF st \in {"completed", "failed"} THEN now ELSE @]

\* update_analysis_status, the part that updates the entry of active_analyses.
update_registry(job, st, pr, err, now) ==
    [job EXCEPT
       !.status = st,
       !.progress = IF pr # NoProgress THEN pr ELSE @,
       !.error_message = IF err # NoError THEN err ELSE @,
       !.started_at = IF st = "processing" /\ @ = 0 THEN now ELSE @,
       !.completed_at = IF st \in {"completed", "failed"} THEN now ELSE @]

\* _update_status_in_db: update_one(..., {"$set": update_doc}, upsert=True).
update_status_in_db(doc, st, pr, err) ==
    LET base == IF doc.exists THEN doc
                ELSE [exists |-> TRUE, evidence_id |-> NoEvidence, status |-> st,
                      progress |-> NoProgress, error_message |-> NoError]
    IN [base EXCEPT
          !.status = st,
          !.progress = IF pr # NoProgress THEN pr ELSE @,
          !.error_message = IF err # NoError THEN err ELSE @]

\* The AnalysisStatus that _get_cached_status builds from a cache entry.
\* The evidence id is the cached one; when the entry carries none it is taken
\* from active_analyses if the id is there, and is "" otherwise.
status_from_cache(entry, job) ==
    [found |-> TRUE, status |-> entry.status, progress |-> or_zero(entry.progress),
     error_message |-> NoError, tier |-> "cache",
     evidence_id |-> IF entry.evidence_id # NoEvidence THEN entry.evidence_id
                     ELSE IF job.exists THEN job.evidence_id ELSE NoEvidence]

\* The AnalysisStatus that _get_status_from_db builds from a document.
status_from_db(doc) ==
    [found |-> TRUE, status |-> doc.status, progress |-> or_zero(doc.progress),
     error_message |-> NoError, tier |-> "db", evidence_id |-> doc.evidence_id]

\* The AnalysisStatus that get_analysis_status builds from active_analyses.
status_from_registry(job) ==
    [found |-> TRUE, status |-> job.status, progress |-> job.progress,
     error_message |-> job.error_message, tier |-> "registry",
     evidence_id |-> job.evidence_id]

(* ---------------------------------------------------------- store writes *)
\* The write of the status to the durable store; ok is the outcome of the I/O.
DbStatusWrite(j, st, pr, err, ok) ==
    dbRequests' = IF db_ready /\ ok
                  THEN [dbRequests EXCEPT ![j] = update_status_in_db(@, st, pr, err)]
                  ELSE dbRequests

\* The write of the status to the cache; the evidence id is taken from the
\* registry when the job is there.
CacheStatusWrite(j, st, pr, ok) ==
    LET e == IF active_analyses[j].exists THEN active_analyses[j].evidence_id
             ELSE NoEvidence
    IN cacheStatus' = IF cache_ready /\ ok
                      THEN [cacheStatus EXCEPT ![j] = status_data(st, or_zero(pr), e)]
                      ELSE cacheStatus

(* ----------------------------------------------------------------- Submit *)
\* Router submit_analysis: uuid4, the request; service submit_analysis up to
\* the insert into analysis_requests.
SubmitStart(e, t) ==
    /\ running = NoTask
    /\ submit.pc \in {"idle", "done"}
    /\ nextId <= MaxJobs
    /\ \E ok \in Io(db_ready) :
         /\ dbRequests' = IF db_ready /\ ok
                          THEN [dbRequests EXCEPT ![nextId] = new_doc(e)]
                          ELSE dbRequests
         /\ Fault(db_ready, ok)
    /\ submit' = [pc |-> "cache", id |-> nextId, evidence_id |-> e,
                  analysis_type |-> t, ret |-> "none", published |-> <<>>]
    /\ nextId' = nextId + 1
    /\ running' = After(SubmitTask, db_ready)
    /\ UNCHANGED <<init, broker, delivery, active_analyses, cacheStatus, cacheResults, dbDetails, adapters,
                   clock, worker, cancel, reader, history>>

\* _cache_analysis_status(analysis_id, "pending", 0, ...)
SubmitCache ==
    /\ MayRun(SubmitTask)
    /\ submit.pc = "cache"
    /\ \E ok \in Io(cache_ready) :
         /\ cacheStatus' = IF cache_ready /\ ok
                           THEN [cacheStatus EXCEPT
                                   ![submit.id] = status_data("pending", 0, submit.evidence_id)]
                           ELSE cacheStatus
         /\ Fault(cache_ready, ok)
    /\ submit' = [submit EXCEPT !.pc = "registry"]
    /\ running' = After(SubmitTask, cache_ready)
    /\ UNCHANGED <<init, broker, delivery, active_analyses, cacheResults, dbRequests, dbDetails, adapters,
                   nextId, clock, worker, cancel, reader, history>>

\* _queue_analysis_request: with the broker connected the call of
\* mq_manager.publish_message raises AttributeError (MessageQueueService has
\* no such method), which submit_analysis re-raises.
queue_analysis_request_raises == mq_ready

\* The task messages _queue_analysis_request has handed to the broker when it
\* returns or raises: none.  Without a connection it publishes nothing, and
\* with one the call raises before a message is sent;
\* MessageQueueService.publish_analysis_task is never called.
queue_analysis_request_published(j, e, t) == <<>>

\* The insert into active_analyses, _queue_analysis_request and the return;
\* on success the router adds the background task.
SubmitRegistry ==
    /\ MayRun(SubmitTask)
    /\ submit.pc = "registry"
    /\ active_analyses' = [active_analyses EXCEPT
                             ![submit.id] = new_job(submit.evidence_id, submit.analysis_type)]
    /\ LET r == IF queue_analysis_request_raises THEN "error" ELSE "ok"
       IN /\ submit' = [submit EXCEPT
                          !.pc = "done", !.ret = r,
                          !.published = queue_analysis_request_published(
                                            submit.id, submit.evidence_id,
                                            submit.analysis_type)]
          /\ submitted' = [submitted EXCEPT ![submit.id] = r]
    /\ running' = NoTask
    /\ UNCHANGED <<init, broker, delivery, faults, cacheStatus, cacheResults, dbRequests, dbDetails, adapters,
                   nextId, clock, worker, cancel, reader, touched, cancelOk, completion, updates>>


(* -------------------------------------------------- UpdateStatus (worker) *)
\* The arguments a worker passes: results only with completed, an error
\* message with failed and only with failed.
UpdateArgs ==
    { a \in [status : Statuses, progress : ProgressArgs,
             error_message : ErrorArgs, results : ResultArgs] :
        /\ (a.results # NoResult => a.status = "completed")
        /\ (a.error_message # NoError <=> a.status = "failed") }

\* Whether update_analysis_status stores results: "if results and status == completed".
stores_results(st, res) == Truthy(res) /\ st = "completed"

\* update_analysis_status up to its first await: the entry of active_analyses.
update_analysis_status(j, a) ==
    /\ running = NoTask
    /\ worker[j].pc \in {"idle", "done"}
    /\ updates[j] < MaxUpdates
    /\ updates' = [updates EXCEPT ![j] = @ + 1]
    /\ active_analyses' =
         IF active_analyses[j].exists
         THEN [active_analyses EXCEPT
                 ![j] = update_registry(@, a.status, a.progress, a.error_message, clock)]
         ELSE active_analyses
    /\ worker' = [worker EXCEPT ![j] =
                    [pc |-> IF stores_results(a.status, a.results)
                            THEN "cache_results" ELSE "db_status",
                     status |-> a.status, progress |-> a.progress,
                     error_message |-> a.error_message, results |-> a.results,
                     afterCancel |-> cancelOk[j]]]
    /\ running' = WorkerTask(j)
    /\ touched' = [touched EXCEPT ![j] = TRUE]
    /\ completion' =
         IF stores_results(a.status, a.results) /\ active_analyses[j].exists
         THEN [completion EXCEPT ![j] =
                 [issued |-> IF @.issued = 0 THEN 1 ELSE 2, done |-> FALSE,
                  r |-> serialize_analysis_result(a.results)]]
         ELSE completion
    /\ UNCHANGED <<init, broker, delivery, faults, cacheStatus, cacheResults, dbRequests, dbDetails, adapters, nextId,
                   clock, submit, cancel, reader, submitted, cancelOk>>

\* The worker of a job that Submit accepted calls update_analysis_status.
UpdateStart(j, a) ==
    /\ submitted[j] = "ok"
    /\ update_analysis_status(j, a)

\* A caller passes update_analysis_status an id that was never handed out.
UpdateUnknown(j, a) ==
    /\ j >= nextId
    /\ update_analysis_status(j, a)

\* _store_analysis_results, the cache part: redis set of results:{id}.
UpdateCacheResults(j) ==
    /\ MayRun(WorkerTask(j))
    /\ worker[j].pc = "cache_results"
    /\ \E ok \in Io(cache_ready) :
         /\ cacheResults' =
              IF cache_ready /\ ok
              THEN [cacheResults EXCEPT
                      ![j] = json_dumps(serialize_analysis_result(worker[j].results))]
              ELSE cacheResults
         /\ Fault(cache_ready, ok)
    /\ worker' = [worker EXCEPT ![j].pc = "db_results"]
    /\ running' = After(WorkerTask(j), cache_ready)
    /\ UNCHANGED <<init, broker, delivery, active_analyses, cacheStatus, dbRequests, dbDetails, adapters, nextId,
                   clock, submit, cancel, reader, history>>

\* _store_analysis_results, the database part: store_detailed_results inserts
\* one more document into analysis_details.
UpdateDbResults(j) ==
    /\ MayRun(WorkerTask(j))
    /\ worker[j].pc = "db_results"
    /\ \E ok \in Io(db_ready) :
         /\ dbDetails' =
              IF db_ready /\ ok
              THEN [dbDetails EXCEPT ![j] = @ \cup {serialize_analysis_result(worker[j].results)}]
              ELSE dbDetails
         /\ Fault(db_ready, ok)
    /\ worker' = [worker EXCEPT ![j].pc = "mem_results"]
    /\ running' = After(WorkerTask(j), db_ready)
    /\ UNCHANGED <<init, broker, delivery, active_analyses, cacheStatus, cacheResults, dbRequests, adapters,
                   nextId, clock, submit, cancel, reader, history>>

\* The in-memory copy of the results in active_analyses.
UpdateMemResults(j) ==
    /\ MayRun(WorkerTask(j))
    /\ worker[j].pc = "mem_results"
    /\ active_analyses' =
         IF active_analyses[j].exists
         THEN [active_analyses EXCEPT
                 ![j].results = serialize_analysis_result(worker[j].results)]
         ELSE active_analyses
    /\ worker' = [worker EXCEPT ![j].pc = "db_status"]
    /\ running' = WorkerTask(j)
    /\ UNCHANGED <<init, broker, delivery, faults, cacheStatus, cacheResults, dbRequests, dbDetails, adapters, nextId,
                   clock, submit, cancel, reader, history>>

\* if self._db_ready(): await self._update_status_in_db(...)
UpdateDbStatus(j) ==
    /\ MayRun(WorkerTask(j))
    /\ worker[j].pc = "db_status"
    /\ \E ok \in Io(db_ready) :
         /\ DbStatusWrite(j, worker[j].status, worker[j].progress,
                          worker[j].error_message, ok)
         /\ Fault(db_ready, ok)
    /\ worker' = [worker EXCEPT ![j].pc = "cache_status"]
    /\ running' = After(WorkerTask(j), db_ready)
    /\ UNCHANGED <<init, broker, delivery, active_analyses, cacheStatus, cacheResults, dbDetails, adapters,
                   nextId, clock, submit, cancel, reader, history>>

\* await self._cache_analysis_status(analysis_id, status, progress or 0, ...)
\* and the return of update_analysis_status.
UpdateCacheStatus(j) ==
    /\ MayRun(WorkerTask(j))
    /\ worker[j].pc = "cache_status"
    /\ \E ok \in Io(cache_ready) :
         /\ CacheStatusWrite(j, worker[j].status, worker[j].progress, ok)
         /\ Fault(cache_ready, ok)
    /\ worker' = [worker EXCEPT ![j].pc = "done"]
    /\ running' = NoTask
    /\ completion' =
         IF stores_results(worker[j].status, worker[j].results) /\ completion[j].issued > 0
         THEN [completion EXCEPT ![j].done = TRUE]
         ELSE completion
    /\ UNCHANGED <<init, broker, delivery, active_analyses, cacheResults, dbRequests, dbDetails, adapters,
                   nextId, clock, submit, cancel, reader, submitted, touched, cancelOk, updates>>


(* ----------------------------------------------------------------- Cancel *)
\* A Cancel call is in progress (between its call and its return value).
CancelActive(c) == cancel[c].pc \notin {"idle", "done"}

\* A variant of the check below that lets only a pending job be cancelled.
can_cancel_pending_only(job) == job.exists /\ job.status = "pending"

\* cancel_analysis may proceed: the job is in active_analyses and its status
\* is none of completed, failed, cancelled.
can_cancel(job) == job.exists /\ job.status \notin {"completed", "failed", "cancelled"}

\* cancel_analysis up to the first await of the update_analysis_status it calls:
\* the two checks, then the registry part of update_analysis_status(id, "cancelled").
CancelStart(c, j) ==
    /\ running = NoTask
    /\ cancel[c].pc \in {"idle", "done"}
    /\ LET job == active_analyses[j]
           go == can_cancel(job)
           others == {d \in Cancellers \ {c} : CancelActive(d) /\ cancel[d].id = j}
       IN /\ active_analyses' =
               IF go
               THEN [active_analyses EXCEPT
                       ![j] = update_registry(@, "cancelled", NoProgress, NoError, clock)]
               ELSE active_analyses
          /\ cancel' = [d \in Cancellers |->
                          IF d = c
                          THEN [pc |-> IF go THEN "db_status" ELSE "done", id |-> j,
                                ret |-> FALSE,
                                startStatus |-> IF job.exists THEN job.status
                                               ELSE IF j >= nextId THEN "unknown"
                                               ELSE "absent",
                                priorOk |-> cancelOk[j], solo |-> others = {}]
                          ELSE IF d \in others THEN [cancel[d] EXCEPT !.solo = FALSE]
                          ELSE cancel[d]]
          /\ running' = IF go THEN CancelTask(c) ELSE NoTask
    /\ touched' = [touched EXCEPT ![j] = TRUE]
    /\ UNCHANGED <<init, broker, delivery, faults, cacheStatus, cacheResults, dbRequests, dbDetails, adapters, nextId,
                   clock, submit, worker, reader, submitted, cancelOk, completion, updates>>

\* update_analysis_status(id, "cancelled"): the database part.
CancelDbStatus(c) ==
    /\ MayRun(CancelTask(c))
    /\ cancel[c].pc = "db_status"
    /\ \E ok \in Io(db_ready) :
         /\ DbStatusWrite(cancel[c].id, "cancelled", NoProgress, NoError, ok)
         /\ Fault(db_ready, ok)
    /\ cancel' = [cancel EXCEPT ![c].pc = "cache_status"]
    /\ running' = After(CancelTask(c), db_ready)
    /\ UNCHANGED <<init, broker, delivery, active_analyses, cacheStatus, cacheResults, dbDetails, adapters,
                   nextId, clock, submit, worker, reader, history>>

\* update_analysis_status(id, "cancelled"): the cache part.
CancelCacheStatus(c) ==
    /\ MayRun(CancelTask(c))
    /\ cancel[c].pc = "cache_status"
    /\ \E ok \in Io(cache_ready) :
         /\ CacheStatusWrite(cancel[c].id, "cancelled", NoProgress, ok)
         /\ Fault(cache_ready, ok)
    /\ cancel' = [cancel EXCEPT ![c].pc = "del"]
    /\ running' = After(CancelTask(c), cache_ready)
    /\ UNCHANGED <<init, broker, delivery, active_analyses, cacheResults, dbRequests, dbDetails, adapters,
                   nextId, clock, submit, worker, reader, history>>

\* A variant of the result below in which deleting an entry that is gone
\* counts as success.
cancel_returns_always(there) == TRUE

\* What cancel_analysis returns after its del: True, or False from its except
\* when the del raised KeyError because the entry is gone.
cancel_returns(there) == there

\* del self.active_analyses[analysis_id]; return True.
CancelDel(c) ==
    /\ MayRun(CancelTask(c))
    /\ cancel[c].pc = "del"
    /\ LET j == cancel[c].id
           there == active_analyses[j].exists
       IN /\ active_analyses' = [active_analyses EXCEPT ![j] = NoJob]
          /\ cancel' = [cancel EXCEPT ![c].pc = "done", ![c].ret = cancel_returns(there)]
          /\ cancelOk' = [cancelOk EXCEPT ![j] = @ \/ cancel_returns(there)]
    /\ running' = NoTask
    /\ UNCHANGED <<init, broker, delivery, faults, cacheStatus, cacheResults, dbRequests, dbDetails, adapters, nextId,
                   clock, submit, worker, reader, submitted, touched, completion, updates>>


\* Router cancel_analysis: what the caller receives for the value that
\* cancel_analysis returned.
cancel_response(success) ==
    IF success
    THEN [code |-> 200, detail |-> "Analysis cancelled successfully"]
    ELSE [code |-> 404, detail |-> "Analysis not found or cannot be cancelled"]

(* ---------------------------------------------------- GetStatus, GetResult *)
\* A variant of the step below in which GetResult goes on to read the result
\* for every status that was found.
after_status_any(f, st) ==
    IF f.op = "status" THEN [f EXCEPT !.pc = "done", !.status = st]
    ELSE IF st.found
         THEN [f EXCEPT !.pc = "cache_results", !.status = st]
         ELSE [f EXCEPT !.pc = "done", !.status = st, !.ret = NoResult]

\* The frame of the reader once get_analysis_status has produced st: GetStatus
\* returns it; GetResult returns None unless st is completed.
after_status(f, st) ==
    IF f.op = "status" THEN [f EXCEPT !.pc = "done", !.status = st]
    ELSE IF st.found /\ st.status = "completed"
         THEN [f EXCEPT !.pc = "cache_results", !.status = st]
         ELSE [f EXCEPT !.pc = "done", !.status = st, !.ret = NoResult]

\* Router get_analysis_results: what the caller receives for the value that
\* get_analysis_results returned ("if not results" raises the 404).
results_response(r) ==
    IF Truthy(r)
    THEN [code |-> 200, detail |-> "results", body |-> r]
    ELSE [code |-> 404, detail |-> "Analysis results not found", body |-> NoResult]

ReadStart(op, j) ==
    /\ running = NoTask
    /\ reader.pc \in {"idle", "done"}
    /\ reader' = [pc |-> "cache_status", op |-> op, id |-> j, status |-> NotFound,
                  ret |-> NoResult, afterSubmit |-> submitted[j] = "ok",
                  expect |-> IF completion[j].done /\ completion[j].issued = 1
                             THEN completion[j].r ELSE NoResult,
                  known |-> j < nextId,
                  afterCancel |-> cancelOk[j],
                  queue |-> NoQueue,
                  expectError |-> IF /\ active_analyses[j].exists /\ worker[j].pc = "done"
                                     /\ worker[j].status = "failed"
                                  THEN worker[j].error_message ELSE NoError,
                  unknownSeen |-> IF reader.pc = "done" /\ reader.op = "result" /\ ~reader.known
                                  THEN results_response(reader.ret)
                                  ELSE reader.unknownSeen]
    /\ running' = ReaderTask
    /\ UNCHANGED <<init, broker, delivery, faults, stores, adapters, nextId, clock, submit, worker, cancel, history>>

\* get_analysis_status: _get_cached_status.
ReadCacheStatus ==
    /\ MayRun(ReaderTask)
    /\ reader.pc = "cache_status"
    /\ \E ok \in Io(cache_ready) :
         /\ reader' = IF cache_ready /\ ok /\ cacheStatus[reader.id].exists
                      THEN after_status(reader, status_from_cache(cacheStatus[reader.id],
                                                                 active_analyses[reader.id]))
                      ELSE [reader EXCEPT !.pc = "db_status"]
         /\ Fault(cache_ready, ok)
    /\ running' = IF reader'.pc = "done" THEN NoTask ELSE After(ReaderTask, cache_ready)
    /\ UNCHANGED <<init, broker, delivery, stores, adapters, nextId, clock, submit, worker, cancel, history>>

\* A variant of the step below that prefers the registry to the durable store.
get_status_registry_first(j, ok) ==
    IF active_analyses[j].exists THEN status_from_registry(active_analyses[j])
    ELSE IF db_ready /\ ok /\ dbRequests[j].exists THEN status_from_db(dbRequests[j])
    ELSE NotFound

\* get_analysis_status after a cache miss: the database when it is ready
\* (whatever _get_status_from_db returns is returned), active_analyses otherwise.
get_status_after_cache(j, ok) ==
    IF db_ready
    THEN IF ok /\ dbRequests[j].exists THEN status_from_db(dbRequests[j]) ELSE NotFound
    ELSE IF active_analyses[j].exists THEN status_from_registry(active_analyses[j])
         ELSE NotFound

ReadDbStatus ==
    /\ MayRun(ReaderTask)
    /\ reader.pc = "db_status"
    /\ \E ok \in Io(db_ready) :
         /\ reader' = after_status(reader, get_status_after_cache(reader.id, ok))
         /\ Fault(db_ready, ok)
    /\ running' = IF reader'.pc = "done" THEN NoTask ELSE After(ReaderTask, db_ready)
    /\ UNCHANGED <<init, broker, delivery, stores, adapters, nextId, clock, submit, worker, cancel, history>>

\* get_analysis_results: the cache read of results:{id}.
ReadCacheResults ==
    /\ MayRun(ReaderTask)
    /\ reader.pc = "cache_results"
    /\ \E ok \in Io(cache_ready) :
         /\ reader' = IF cache_ready /\ ok /\ cacheResults[reader.id] # NoResult
                      THEN [reader EXCEPT !.pc = "done",
                                          !.ret = json_loads(cacheResults[reader.id])]
                      ELSE [reader EXCEPT !.pc = "db_results"]
         /\ Fault(cache_ready, ok)
    /\ running' = IF reader'.pc = "done" THEN NoTask ELSE After(ReaderTask, cache_ready)
    /\ UNCHANGED <<init, broker, delivery, stores, adapters, nextId, clock, submit, worker, cancel, history>>

\* get_analysis_results after a cache miss: the values it may return.  With the
\* database ready it returns what _get_results_from_db returns (find_one yields
\* one of the documents of the id, or None); otherwise the in-memory copy.
get_results_after_cache(j, ok) ==
    IF db_ready
    THEN IF ok /\ dbDetails[j] # {} THEN dbDetails[j] ELSE {NoResult}
    ELSE IF active_analyses[j].exists THEN {active_analyses[j].results}
         ELSE {NoResult}

ReadDbResults ==
    /\ MayRun(ReaderTask)
    /\ reader.pc = "db_results"
    /\ \E ok \in Io(db_ready) :
         /\ \E r \in get_results_after_cache(reader.id, ok) :
               reader' = [reader EXCEPT !.pc = "done", !.ret = r]
         /\ Fault(db_ready, ok)
    /\ running' = NoTask
    /\ UNCHANGED <<init, broker, delivery, stores, adapters, nextId, clock, submit, worker, cancel, history>>


(* ---------------------------------------------------------- GetQueueStatus *)
\* get_queue_status: one pass over active_analyses.  timed is the set of the
\* entries whose processing time enters the mean: status completed with both
\* started_at and completed_at in the entry.
get_queue_status(registry) ==
    LET with(st) == Cardinality({j \in Ids : registry[j].exists /\ registry[j].status = st})
    IN [pending |-> with("pending"), processing |-> with("processing"),
        completed |-> with("completed"), failed |-> with("failed"),
        by_type |-> [t \in MediaTypes |->
                       Cardinality({j \in Ids : /\ registry[j].exists
                                                /\ registry[j].analysis_type = t})],
        timed |-> {j \in Ids : /\ registry[j].exists /\ registry[j].status = "completed"
                               /\ registry[j].started_at # 0
                               /\ registry[j].completed_at # 0}]

\* The call has no await: it runs in one step and writes nothing.
GetQueueStatus ==
    /\ running = NoTask
    /\ reader.pc \in {"idle", "done"}
    /\ reader' = [IdleReader EXCEPT !.pc = "done", !.op = "queue",
                                    !.queue = get_queue_status(active_analyses)]
    /\ UNCHANGED <<init, broker, delivery, faults, stores, adapters, running, nextId, clock,
                   submit, worker, cancel, history>>

(* ----------------------------------------------------------------- Deliver *)
\* Python's round(n / d) for d > 0: to the nearest integer, ties to the even one.
round(n, d) ==
    LET q == n \div d
        r == n % d
    IN IF 2 * r < d THEN q
       ELSE IF 2 * r > d THEN q + 1
       ELSE IF q % 2 = 0 THEN q ELSE q + 1

\* Python's int(n / d) for d > 0: truncation towards zero.
int(n, d) == IF n >= 0 THEN n \div d ELSE -((-n) \div d)

min(a, b) == IF a < b THEN a ELSE b
max(a, b) == IF a > b THEN a ELSE b

\* send_results_to_evidence_service: the confidence_percent it adds to the
\* serialised results.
confidence_percent(raw_conf) ==
    IF ~raw_conf.num THEN NoNumber
    ELSE IF raw_conf.e <= ConfUnit THEN Number(int(100 * raw_conf.e, ConfUnit))
    ELSE Number(int(raw_conf.e, ConfUnit))

\* A variant of the normalisation below without the limits 0 and 100.
confidence_unclamped(raw_conf) ==
    IF ~raw_conf.num THEN 0
    ELSE IF raw_conf.e <= ConfUnit THEN round(raw_conf.e * 100, ConfUnit)
    ELSE round(raw_conf.e, ConfUnit)

\* _build_evidence_analysis_payload: the confidence normalisation.
confidence(raw_conf) ==
    IF ~raw_conf.num THEN 0
    ELSE IF raw_conf.e <= ConfUnit
         THEN max(0, min(100, round(raw_conf.e * 100, ConfUnit)))
         ELSE max(0, min(100, round(raw_conf.e, ConfUnit)))

\* "result_obj.get(key) or {}" followed by .get on the value: a value that is
\* not a dict has no .get and the call raises AttributeError.
build_raises(result_obj) ==
    \/ result_obj.manipulation_detection.kind = "text"
    \/ result_obj.deepfake_detection.kind = "text"

\* isinstance(doc, dict) and "is_authentic" in doc
has_is_authentic(doc) == doc.kind = "dict" /\ doc.has_flag

\* _build_evidence_analysis_payload: anomalies.
anomalies(result_obj) ==
    LET img == result_obj.manipulation_detection
        vid == result_obj.deepfake_detection
        doc == result_obj.authenticity_analysis
    IN \/ (img.kind = "dict" /\ img.has_flag /\ img.flag)
       \/ (vid.kind = "dict" /\ vid.has_flag /\ vid.flag)
       \/ (has_is_authentic(doc) /\ ~doc.flag)

\* _build_evidence_analysis_payload: findings, in the order they are appended.
findings(result_obj) ==
    LET img == result_obj.manipulation_detection
        vid == result_obj.deepfake_detection
        doc == result_obj.authenticity_analysis
    IN (IF img.kind = "dict" /\ img.type
        THEN <<[type |-> "image_manipulation", confidence |-> img.confidence]>>
        ELSE <<>>)
       \o (IF vid.kind = "dict" /\ vid.has_flag /\ vid.flag
           THEN <<[type |-> "video_deepfake", confidence |-> vid.confidence]>>
           ELSE <<>>)
       \o (IF has_is_authentic(doc) /\ ~doc.flag
           THEN <<[type |-> "document_forgery", confidence |-> doc.confidence],
                  [type |-> "audio_tampering", confidence |-> doc.confidence]>>
           ELSE <<>>)

\* _build_evidence_analysis_payload for a result on which it does not raise.
build_evidence_analysis_payload(j, e, result_obj, now) ==
    [confidence |-> confidence(result_obj.confidence_score),
     anomaliesDetected |-> anomalies(result_obj),
     findings |-> findings(result_obj),
     metadata |-> [analysisId |-> j, evidenceId |-> e, completedAt |-> now,
                   analysisType |-> IF active_analyses[j].exists
                                    THEN active_analyses[j].analysis_type ELSE "none",
                   error |-> "none"]]

\* _send_results_via_http: the minimal payload used when the builder raised.
fallback_payload(j, e) ==
    [confidence |-> 0, anomaliesDetected |-> FALSE, findings |-> <<>>,
     metadata |-> [analysisId |-> j, evidenceId |-> e, completedAt |-> 0,
                   analysisType |-> "none", error |-> "payload_build_failed"]]

\* _send_results_via_http: the payload that is posted.
evidence_payload(j, e, result_obj, now) ==
    IF build_raises(result_obj) THEN fallback_payload(j, e)
    ELSE build_evidence_analysis_payload(j, e, result_obj, now)

\* _send_results_via_mq with the broker connected: the call of
\* mq_manager.publish_message raises AttributeError (MessageQueueService has
\* no such method) before anything is sent.
send_results_via_mq_raises == mq_ready

\* send_results_to_evidence_service up to "if self._mq_ready()": the results
\* are serialised and confidence_percent is added.
DeliverStart(j, e, r) ==
    /\ running = NoTask
    /\ deliver.pc \in {"idle", "done"}
    /\ delivers[j] < MaxDelivers
    /\ delivers' = [delivers EXCEPT ![j] = @ + 1]
    /\ deliver' = [pc |-> IF mq_ready THEN "mq" ELSE "http", id |-> j, evidence_id |-> e,
                   results |-> r,
                   confidence_percent |-> confidence_percent(r.confidence_score),
                   mq |-> IF mq_ready THEN "none" ELSE "skipped", http |-> "none",
                   payload |-> NoPayload]
    /\ running' = DeliverTask
    /\ UNCHANGED <<init, broker, faults, stores, adapters, nextId, clock, submit, worker, cancel, reader,
                   history, callbacks>>

\* await self._send_results_via_mq(...): the exception leaves
\* send_results_to_evidence_service through its outer except, which logs it.
DeliverMq ==
    /\ MayRun(DeliverTask)
    /\ deliver.pc = "mq"
    /\ deliver' = IF send_results_via_mq_raises
                  THEN [deliver EXCEPT !.pc = "done", !.mq = "raised"]
                  ELSE [deliver EXCEPT !.pc = "http", !.mq = "skipped"]
    /\ running' = IF send_results_via_mq_raises THEN NoTask ELSE DeliverTask
    /\ UNCHANGED <<init, broker, faults, stores, adapters, nextId, clock, submit, worker, cancel, reader,
                   history, delivers, callbacks>>

\* await self._send_results_via_http(...): the payload is built and posted
\* once; every outcome of the POST is logged and none is raised.
DeliverHttp ==
    /\ MayRun(DeliverTask)
    /\ deliver.pc = "http"
    /\ \E outcome \in HttpOutcomes :
         deliver' = [deliver EXCEPT
                       !.pc = "done", !.http = outcome,
                       !.payload = evidence_payload(deliver.id, deliver.evidence_id,
                                                    deliver.results, clock)]
    /\ callbacks' = [callbacks EXCEPT ![deliver.id] = @ + 1]
    /\ running' = NoTask
    /\ UNCHANGED <<init, broker, faults, stores, adapters, nextId, clock, submit, worker, cancel, reader,
                   history, delivers>>


(* ------------------------------------------------------------------ Broker *)
\* MessageQueueService.publish_analysis_task(analysis_type, ...): a persistent
\* message is published to the analysis exchange with the type's routing key.
PublishTask(t) ==
    /\ mq_ready
    /\ Cardinality(broker.sent) < MaxMessages
    /\ LET m == [n |-> Cardinality(broker.sent) + 1, type |-> t]
       IN broker' = published([broker EXCEPT !.sent = @ \cup {m}], m,
                              "analysis", task_routing_key(t))
    /\ UNCHANGED <<init, delivery, faults, stores, adapters, running, nextId, clock,
                   submit, worker, cancel, reader, history>>

\* MessageQueueService.nack_message(message, requeue = False) for a message
\* of queue q: the broker removes the message and, when the queue names a
\* dead-letter exchange, publishes it there with the dead-letter routing key.
NackMessage(q, m) ==
    /\ mq_ready
    /\ m \in broker.queues[q]
    /\ LET removed == [broker EXCEPT !.queues[q] = @ \ {m}]
           dl == dead_letter_args(q)
       IN broker' = IF dl.exchange = "none" THEN removed
                    ELSE published([removed EXCEPT !.dead = @ \cup {m}], m,
                                   dl.exchange, dl.key)
    /\ UNCHANGED <<init, delivery, faults, stores, adapters, running, nextId, clock,
                   submit, worker, cancel, reader, history>>


(* ------------------------------------------------- lazy adapter initialise *)
\* _connected of a lazy adapter.
connected(a) == IF a = "cache" THEN cacheConnected ELSE dbConnected

\* A variant of the guard below with which a task never returns early.
auto_initialize_unguarded(initializing) == FALSE

\* _auto_initialize: "if self._initializing: return".
auto_initialize_returns(initializing) == initializing

\* is_ready inside the running loop, for an adapter that is neither connected
\* nor initializing: _initialize_sync sets _initializing, schedules one
\* _auto_initialize task with create_task and resets _initializing in its
\* finally, all without suspending.  Any other probe changes nothing.
Probe(a) ==
    /\ ~connected(a) /\ ~init[a].initializing
    /\ init[a].scheduled < MaxTasks
    /\ init' = [init EXCEPT ![a].scheduled = @ + 1, ![a].initializing = FALSE,
                             ![a].probed = "inside"]
    /\ UNCHANGED <<broker, delivery, faults, stores, adapters, running, nextId, clock,
                   submit, worker, cancel, reader, history>>

\* is_ready with no event loop running, for an adapter that is neither
\* connected nor initializing: _initialize_sync sets _initializing and runs
\* _auto_initialize to completion with run_until_complete; the coroutine finds
\* _initializing set and returns; the finally resets _initializing.
ProbeOutside(a, ok) ==
    /\ ~connected(a) /\ ~init[a].initializing
    /\ init' = [init EXCEPT ![a].initializing = FALSE, ![a].probed = "outside"]
    /\ LET up == IF auto_initialize_returns(TRUE) THEN connected(a) ELSE ok
       IN /\ cacheConnected' = IF a = "cache" THEN up ELSE cacheConnected
          /\ dbConnected' = IF a = "db" THEN up ELSE dbConnected
    /\ UNCHANGED <<broker, delivery, faults, stores, mqConnected, running, nextId, clock,
                   submit, worker, cancel, reader, history>>

\* A scheduled _auto_initialize task gets the loop: it returns when
\* _initializing is set, otherwise it sets it and awaits initialize().
InitTaskStart(a) ==
    /\ running = NoTask
    /\ init[a].scheduled > 0
    /\ init' = IF auto_initialize_returns(init[a].initializing)
               THEN [init EXCEPT ![a].scheduled = @ - 1, ![a].skipped = TRUE]
               ELSE [init EXCEPT ![a].scheduled = @ - 1, ![a].initializing = TRUE,
                                 ![a].attempts = @ + 1]
    /\ UNCHANGED <<broker, delivery, faults, stores, adapters, running, nextId, clock,
                   submit, worker, cancel, reader, history>>

\* initialize() of a task ends: _connected is set to the outcome, and the
\* finally of _auto_initialize resets _initializing.
InitTaskEnd(a, ok) ==
    /\ running = NoTask
    /\ init[a].attempts > 0
    /\ init' = [init EXCEPT ![a].attempts = @ - 1, ![a].initializing = FALSE]
    /\ cacheConnected' = IF a = "cache" THEN ok ELSE cacheConnected
    /\ dbConnected' = IF a = "db" THEN ok ELSE dbConnected
    /\ UNCHANGED <<broker, delivery, faults, stores, mqConnected, running, nextId, clock,
                   submit, worker, cancel, reader, history>>


(* ------------------------------------------------ process_analysis_async *)
\* The updates of the background task: processing with progress 10, then
\* completed with progress 100 and the results, or failed with the message of
\* the exception.
ProcessingArgs ==
    [status |-> "processing", progress |-> 10, error_message |-> NoError,
     results |-> NoResult]
CompletedArgs ==
    [status |-> "completed", progress |-> 100, error_message |-> NoError,
     results |-> [kind |-> "model", body |-> "R"]]
FailedArgs ==
    [status |-> "failed", progress |-> NoProgress, error_message |-> "E1",
     results |-> NoResult]

\* The task is started by the router after submit_analysis has returned; its
\* first statement is the update to processing.
ProcessBegin(j) ==
    /\ updates[j] = 0
    /\ UpdateStart(j, ProcessingArgs)

\* The processor returns or raises: inside the try the update to completed
\* follows, in the except the update to failed.  update_analysis_status and
\* send_results_to_evidence_service catch every exception themselves, so only
\* the selection of the processor and processor.analyze reach the except.
ProcessEnd(j, ok) ==
    /\ updates[j] = 1 /\ worker[j].pc = "done"
    /\ UpdateStart(j, IF ok THEN CompletedArgs ELSE FailedArgs)

\* A variant of the condition below that also holds after the update to failed.
may_deliver_any(j) == updates[j] = 2 /\ worker[j].pc = "done"

\* send_results_to_evidence_service follows the awaited update to completed
\* inside the try; the except does not call it.
may_deliver(j) ==
    updates[j] = 2 /\ worker[j].pc = "done" /\ worker[j].status = "completed"

ProcessDeliver(j, e, r) ==
    /\ may_deliver(j)
    /\ DeliverStart(j, e, r)

(* ---------------------------------------------------------- specification *)
\* The adapters' initialisation tasks.
NextAdapters ==
    \/ CacheConnect
    \/ DbConnect

\* Submit, issued by the web layer.
NextSubmit ==
    \/ \E e \in EvidenceIds, t \in AnalysisTypes : SubmitStart(e, t)
    \/ SubmitCache
    \/ SubmitRegistry

\* UpdateStatus, issued by the worker of a job.
NextWorker ==
    \/ \E j \in Ids, a \in UpdateArgs : UpdateStart(j, a)
    \/ \E j \in Ids : UpdateCacheResults(j)
    \/ \E j \in Ids : UpdateDbResults(j)
    \/ \E j \in Ids : UpdateMemResults(j)
    \/ \E j \in Ids : UpdateDbStatus(j)
    \/ \E j \in Ids : UpdateCacheStatus(j)

\* Cancel, issued by the web layer.
NextCancel ==
    \/ \E c \in Cancellers, j \in Ids : CancelStart(c, j)
    \/ \E c \in Cancellers : CancelDbStatus(c)
    \/ \E c \in Cancellers : CancelCacheStatus(c)
    \/ \E c \in Cancellers : CancelDel(c)

\* GetStatus and GetResult, issued by the web layer.
NextReader ==
    \/ \E op \in {"status", "result"}, j \in Ids : ReadStart(op, j)
    \/ ReadCacheStatus
    \/ ReadDbStatus
    \/ ReadCacheResults
    \/ ReadDbResults

\* Submissions, worker updates and reads.
Next == NextAdapters \/ NextSubmit \/ NextWorker \/ NextReader

Spec == Init /\ [][Next]_vars

\* Submissions, worker updates and cancellations.
NextCancelling == NextAdapters \/ NextSubmit \/ NextWorker \/ NextCancel

SpecCancel == Init /\ [][NextCancelling]_vars

\* Deliver, issued by the worker of a job.
NextDeliver ==
    \/ \E j \in Ids, e \in EvidenceIds, r \in DeliverResults : DeliverStart(j, e, r)
    \/ DeliverMq
    \/ DeliverHttp

\* Submissions and deliveries.
NextDelivering == NextSubmit \/ NextDeliver

SpecDeliver == Init /\ [][NextDelivering]_vars

\* Submissions and worker updates, with the scheduling of the event loop: a
\* coroutine that has been started is resumed until it returns, and the
\* initialisation task of an adapter completes.  No caller is obliged to
\* issue a new call.
NextStoring == NextAdapters \/ NextSubmit \/ NextWorker

WorkerResumes ==
    \E j \in Ids : \/ UpdateCacheResults(j) \/ UpdateDbResults(j) \/ UpdateMemResults(j)
                   \/ UpdateDbStatus(j) \/ UpdateCacheStatus(j)

SubmitResumes == SubmitCache \/ SubmitRegistry

SpecStoreFair ==
    /\ Init /\ [][NextStoring]_vars
    /\ WF_vars(WorkerResumes) /\ WF_vars(SubmitResumes)
    /\ WF_vars(DbConnect) /\ WF_vars(CacheConnect)

\* Submissions and worker updates while time passes.
NextTimed == NextSubmit \/ NextWorker \/ Tick

SpecTimed == Init /\ [][NextTimed]_vars

\* Updates and reads of ids that were never submitted.
NextUnknown ==
    \/ \E j \in Ids, a \in UpdateArgs : UpdateUnknown(j, a)
    \/ \E j \in Ids : UpdateCacheResults(j)
    \/ \E j \in Ids : UpdateDbResults(j)
    \/ \E j \in Ids : UpdateMemResults(j)
    \/ \E j \in Ids : UpdateDbStatus(j)
    \/ \E j \in Ids : UpdateCacheStatus(j)

NextStray == NextAdapters \/ NextUnknown \/ NextReader

SpecStray == Init /\ [][NextStray]_vars

\* Publications to the broker and rejections by consumers.
NextBroker ==
    \/ \E t \in MediaTypes : PublishTask(t)
    \/ \E q \in QueueNames, m \in broker.sent : NackMessage(q, m)

SpecBroker == Init /\ [][NextBroker]_vars

\* Readiness probes and the initialisation tasks they schedule.
NextInit ==
    \/ \E a \in LazyAdapters : Probe(a)
    \/ \E a \in LazyAdapters : InitTaskStart(a)
    \/ \E a \in LazyAdapters, ok \in BOOLEAN : InitTaskEnd(a, ok)

SpecInit == Init /\ [][NextInit]_vars

\* Submissions, worker updates and GetQueueStatus.
NextQueue == NextSubmit \/ NextWorker \/ GetQueueStatus

SpecQueue == Init /\ [][NextQueue]_vars

\* Submissions, cancellations and GetStatus.
NextCancelRead ==
    \/ NextSubmit
    \/ NextCancel
    \/ \E j \in Ids : ReadStart("status", j)
    \/ ReadCacheStatus
    \/ ReadDbStatus

SpecCancelRead == Init /\ [][NextCancelRead]_vars

\* Readiness probes inside and outside the running loop with the backend
\* reachable: initialize() succeeds.  The loop runs every task that has been
\* scheduled and resumes every task that awaits; no caller is obliged to probe.
NextReachable ==
    \/ \E a \in LazyAdapters : Probe(a)
    \/ \E a \in LazyAdapters : ProbeOutside(a, TRUE)
    \/ \E a \in LazyAdapters : InitTaskStart(a)
    \/ \E a \in LazyAdapters : InitTaskEnd(a, TRUE)

SpecInitFair ==
    /\ Init /\ [][NextReachable]_vars
    /\ \A a \in LazyAdapters : WF_vars(InitTaskStart(a)) /\ WF_vars(InitTaskEnd(a, TRUE))

(* ================================================================ claims *)
\* The statuses cancel_analysis lets through: pending and processing.
NonTerminal == Statuses \ Terminal

\* C1: once the status of a job is completed or failed, no later UpdateStatus
\* changes the status held for it in the registry, the cache or the durable store.
C1_TerminalStatusIsFinal ==
    [][\A j \in Ids :
         /\ (active_analyses[j].exists /\ active_analyses'[j].exists
               /\ active_analyses[j].status \in {"completed", "failed"})
            => active_analyses'[j].status = active_analyses[j].status
         /\ (cacheStatus[j].exists /\ cacheStatus[j].status \in {"completed", "failed"})
            => cacheStatus'[j].status = cacheStatus[j].status
         /\ (dbRequests[j].exists /\ dbRequests[j].status \in {"completed", "failed"})
            => dbRequests'[j].status = dbRequests[j].status]_vars

\* C2: every change of the status of a registered job made by UpdateStatus or
\* Cancel is one of the five transitions pending->processing, pending->cancelled,
\* processing->completed, processing->failed, processing->cancelled.
C2_OnlyLegalTransitions ==
    [][\A j \in Ids :
         (active_analyses[j].exists /\ active_analyses'[j].exists
            /\ active_analyses'[j].status # active_analyses[j].status)
         => <<active_analyses[j].status, active_analyses'[j].status>>
              \in {<<"pending", "processing">>, <<"pending", "cancelled">>,
                   <<"processing", "completed">>, <<"processing", "failed">>,
                   <<"processing", "cancelled">>}]_vars

\* C3: a GetStatus issued after Submit returned the id (ids are handed out
\* fresh, one per submission) and before any update or cancellation of the job
\* reports status pending and progress 0.
C3_PendingRightAfterSubmit ==
    (reader.pc = "done" /\ reader.op = "status" /\ reader.afterSubmit
       /\ ~touched[reader.id])
    => (reader.status.found /\ reader.status.status = "pending"
          /\ reader.status.progress = 0)

\* C4: Submit returns a handle whatever the state of the cache, the durable
\* store and the broker.
C4_SubmitAlwaysReturnsHandle ==
    submit.pc = "done" => submit.ret = "ok"

\* C5: GetStatus of a job that Submit accepted (and that nobody cancelled)
\* reports a status, never NotFound.
C5_AcceptedJobIsFound ==
    (reader.pc = "done" /\ reader.op = "status" /\ reader.afterSubmit
       /\ ~cancelOk[reader.id])
    => reader.status.found

\* C6: a GetResult issued after UpdateStatus(id, completed, result=R) returned
\* for a registered job, and whose status read reports completed, returns the
\* serialised R.
C6_ResultAfterCompleted ==
    (reader.pc = "done" /\ reader.op = "result" /\ reader.expect # NoResult
       /\ reader.status.found /\ reader.status.status = "completed")
    => reader.ret = reader.expect

\* C7: at every point of the first update of a job, UpdateStatus(id, completed,
\* result=R), and after it: if the cache holds status completed it holds the
\* result, and if the durable store holds status completed it holds the result.
C7_ResultBeforeCompletedStatus ==
    \A j \in Ids :
      (updates[j] = 1 /\ stores_results(worker[j].status, worker[j].results))
      => /\ (cacheStatus[j].exists /\ cacheStatus[j].status = "completed")
            => cacheResults[j] # NoResult
         /\ (dbRequests[j].exists /\ dbRequests[j].status = "completed")
            => dbDetails[j] # {}

\* C8: while the status of a job is pending or processing, the progress held
\* for it in the registry and in the cache never decreases.
C8_ProgressNeverDecreases ==
    [][\A j \in Ids :
         /\ (active_analyses[j].exists /\ active_analyses'[j].exists
               /\ active_analyses[j].status \in NonTerminal
               /\ active_analyses'[j].status \in NonTerminal)
            => active_analyses'[j].progress >= active_analyses[j].progress
         /\ (cacheStatus[j].exists /\ cacheStatus'[j].exists
               /\ cacheStatus[j].status \in NonTerminal
               /\ cacheStatus'[j].status \in NonTerminal)
            => cacheStatus'[j].progress >= cacheStatus[j].progress]_vars

\* C9: of two Cancel calls in sequence on a job that is pending or processing,
\* the first (no other Cancel of the id overlapping it) returns success and
\* every Cancel issued after a successful one returns failure.
C9_CancelTwice ==
    \A c \in Cancellers :
      cancel[c].pc = "done"
      => /\ (cancel[c].solo /\ cancel[c].startStatus \in NonTerminal)
            => cancel[c].ret = TRUE
         /\ cancel[c].priorOk => cancel[c].ret = FALSE

\* A Cancel of a processing job has returned success and a second Cancel of
\* the same id, issued after it, has returned failure.
C9_Witness ==
    \E c, d \in Cancellers :
      /\ c # d /\ cancel[c].id = cancel[d].id
      /\ cancel[c].pc = "done" /\ cancel[c].solo
      /\ cancel[c].startStatus = "processing" /\ cancel[c].ret = TRUE
      /\ cancel[d].pc = "done" /\ cancel[d].priorOk /\ cancel[d].ret = FALSE

\* C10: an UpdateStatus issued after Cancel succeeded changes nothing: a status
\* cancelled held by the cache or the durable store stays, and no result is
\* stored in either.
C10_UpdateAfterCancelRejected ==
    [][\A j \in Ids :
         (cancelOk[j] /\ worker[j].afterCancel /\ worker[j].pc \notin {"idle", "done"})
         => /\ (cacheStatus[j].exists /\ cacheStatus[j].status = "cancelled")
               => cacheStatus'[j].status = "cancelled"
            /\ (dbRequests[j].exists /\ dbRequests[j].status = "cancelled")
               => dbRequests'[j].status = "cancelled"
            /\ cacheResults'[j] = cacheResults[j]
            /\ dbDetails'[j] = dbDetails[j]]_vars

\* C11: the outcome the caller receives for a Cancel of an id that was never
\* handed out differs from the outcome for a Cancel of a job whose status is
\* already completed, failed or cancelled.
C11_CancelNotFoundVsTerminal ==
    \A c, d \in Cancellers :
      (cancel[c].pc = "done" /\ cancel[c].startStatus = "unknown"
         /\ cancel[d].pc = "done" /\ cancel[d].startStatus \in Terminal)
      => cancel_response(cancel[c].ret) # cancel_response(cancel[d].ret)

\* C12: a GetResult of an id that was never handed out is answered NotFound, and
\* a GetResult of a job that exists with a status other than completed is
\* answered differently (NotReady).
C12_NotFoundVsNotReady ==
    (reader.pc = "done" /\ reader.op = "result" /\ reader.known
       /\ reader.status.found /\ reader.status.status # "completed"
       /\ reader.unknownSeen # NoResponse)
    => /\ reader.unknownSeen.code = 404
       /\ results_response(reader.ret) # reader.unknownSeen

\* C13: GetResult returns a result only if the status read it performed first
\* reported completed; with any other status it returns none, whatever the
\* cache, the durable store and the registry hold for the id.
C13_ResultOnlyIfCompleted ==
    (reader.op = "result" /\ reader.ret # NoResult)
    => (reader.status.found /\ reader.status.status = "completed")

\* A GetResult has returned nothing for a job whose second update moved the
\* cached status away from completed, while the cache holds the result blob.
C13_Witness ==
    /\ reader.pc = "done" /\ reader.op = "result" /\ reader.ret = NoResult
    /\ reader.status.found /\ reader.status.tier = "cache"
    /\ reader.status.status \in {"pending", "processing", "failed"}
    /\ updates[reader.id] = 2 /\ worker[reader.id].pc = "done"
    /\ worker[reader.id].status = reader.status.status
    /\ cacheResults[reader.id] # NoResult

\* The three tiers hold three different answers for the id of the read.
TiersDiffer(j) ==
    /\ cacheStatus[j].exists /\ dbRequests[j].exists /\ active_analyses[j].exists
    /\ cacheStatus[j].status # dbRequests[j].status
    /\ cacheStatus[j].status # active_analyses[j].status

C14_BothPathsAttempted ==
    deliver.pc = "done" =>
        /\ deliver.http # "none"
        /\ mq_ready => deliver.mq # "none"

\* C15: for a job whose delivery has returned, exactly one HTTP callback was
\* attempted, whatever the result looks like and whether or not the broker is
\* connected.  Deliver is the call the worker makes for the job it has just
\* reported completed.
C15_ExactlyOneCallback ==
    \A j \in Ids :
        (delivers[j] = 1 /\ deliver.id = j /\ deliver.pc = "done") => callbacks[j] = 1

\* C16: a Deliver whose result has none of the fields the packager looks at
\* posts a payload with confidence 0, anomaliesDetected false, no findings and
\* an error marker in its metadata.
C16_PackagingFallback ==
    (deliver.pc = "done" /\ deliver.http # "none" /\ deliver.results = NoFields) =>
        /\ deliver.payload.confidence = 0
        /\ ~deliver.payload.anomaliesDetected
        /\ deliver.payload.findings = <<>>
        /\ deliver.payload.metadata.error # "none"

\* The result {"authenticity_analysis": {"is_authentic": false, "confidence": 0.82}}.
ScenarioResult ==
    [NoFields EXCEPT !.authenticity_analysis = Section(TRUE, FALSE, FALSE, 82)]

\* C17: for the result {"authenticity_analysis": {"is_authentic": false,
\* "confidence": 0.82}} the payload that Deliver posts has anomaliesDetected
\* true and confidence 82.
C17_ScenarioPayload ==
    (deliver.pc = "done" /\ deliver.http # "none" /\ deliver.results = ScenarioResult) =>
        /\ deliver.payload.anomaliesDetected
        /\ deliver.payload.confidence = 82

\* C18: the confidence of a posted payload is an integer from 0 to 100.  A raw
\* score of at most 1 is taken as a fraction and multiplied by 100, a raw score
\* above 1 is taken as a percentage; either is rounded to a nearest integer
\* and limited to 0..100.  Without a numeric score the confidence is 0.
C18_ConfidenceRange ==
    (deliver.pc = "done" /\ deliver.http # "none") =>
        LET c == deliver.payload.confidence
            raw == deliver.results.confidence_score
            \* the raw score as a percentage, in units of 1 / ConfUnit
            pct == IF raw.e <= ConfUnit THEN 100 * raw.e ELSE raw.e
        IN /\ c \in 0..100
           /\ (~raw.num \/ build_raises(deliver.results)) => c = 0
           /\ (raw.num /\ ~build_raises(deliver.results)) =>
                 /\ pct < 0 => c = 0
                 /\ pct > 100 * ConfUnit => c = 100
                 /\ (pct >= 0 /\ pct <= 100 * ConfUnit) =>
                       /\ 2 * (ConfUnit * c - pct) <= ConfUnit
                       /\ 2 * (pct - ConfUnit * c) <= ConfUnit

\* A Deliver posted a payload for a raw score of 0.875, a fraction halfway
\* between two percentages.
C18_Witness ==
    /\ deliver.pc = "done" /\ deliver.http = "2xx"
    /\ deliver.results.confidence_score = Number(7)
    /\ deliver.payload.confidence = 88

\* C19: every job that reaches completed with a result eventually has that
\* result in the durable store (analysis_details), given that the store
\* becomes available and every started coroutine runs to its end.
C19_ResultEventuallyStored ==
    \A j \in Ids :
        completion[j].done ~> (completion[j].r \in dbDetails[j])

\* C21: a GetStatus issued after UpdateStatus(id, failed, errorMessage = E) has
\* returned for a registered job, with no other update since, returns status
\* failed together with the error message E, whichever tier serves the read.
C21_FailedCarriesErrorMessage ==
    (/\ reader.pc = "done" /\ reader.op = "status" /\ reader.expectError # NoError
     /\ worker[reader.id].pc = "done" /\ worker[reader.id].status = "failed"
     /\ worker[reader.id].error_message = reader.expectError)
    => /\ reader.status.found
       /\ reader.status.status = "failed"
       /\ reader.status.error_message = reader.expectError

\* C22: started_at of a job is set by the update that first makes the job
\* processing, to the time of that update; once set no later update changes
\* it, and it is absent while the job has not been processing.
C22_StartedAtSetOnce ==
    /\ [](\A j \in Ids :
            (active_analyses[j].exists /\ active_analyses[j].status = "processing")
                => active_analyses[j].started_at # 0)
    /\ [][ \A j \in Ids :
             LET job == active_analyses[j]
                 new == active_analyses'[j]
             IN (job.exists /\ new.exists) =>
                  /\ job.started_at # 0 => new.started_at = job.started_at
                  /\ (job.started_at = 0 /\ new.status = "processing")
                        => new.started_at = clock
                  /\ (job.started_at = 0 /\ new.started_at # 0)
                        => new.status = "processing" ]_vars

\* After two updates, the second one to processing, a job carries a started_at
\* that is earlier than the current time.
C22_Witness ==
    \E j \in Ids :
        /\ active_analyses[j].exists /\ active_analyses[j].status = "processing"
        /\ updates[j] = 2 /\ worker[j].pc = "done" /\ worker[j].status = "processing"
        /\ active_analyses[j].started_at # 0
        /\ active_analyses[j].started_at < clock
        /\ clock = MaxClock

\* C23: completed_at of a job is set when the job enters a terminal status
\* (completed, failed or cancelled), so a job in a terminal status carries
\* one, and once set it is not overwritten by a later update.
C23_CompletedAtSetOnce ==
    /\ [](\A j \in Ids :
            (active_analyses[j].exists /\ active_analyses[j].status \in Terminal)
                => active_analyses[j].completed_at # 0)
    /\ [][ \A j \in Ids :
             (active_analyses[j].exists /\ active_analyses'[j].exists
              /\ active_analyses[j].completed_at # 0)
                => active_analyses'[j].completed_at = active_analyses[j].completed_at ]_vars

\* C24: in every reachable state the registry entry and the durable-store
\* document of a job carry an error message only if their status is failed.
C24_ErrorMessageOnlyIfFailed ==
    \A j \in Ids :
        /\ (active_analyses[j].exists /\ active_analyses[j].error_message # NoError)
              => active_analyses[j].status = "failed"
        /\ (dbRequests[j].exists /\ dbRequests[j].error_message # NoError)
              => dbRequests[j].status = "failed"

\* C25: a job record comes into existence only through Submit.  For an id that
\* was never submitted, the cache and the durable store hold no status record,
\* whatever UpdateStatus calls were made for it, and a GetStatus of the id
\* reports NotFound.
C25_OnlySubmitCreates ==
    /\ \A j \in Ids :
         j >= nextId => (~cacheStatus[j].exists /\ ~dbRequests[j].exists)
    /\ (reader.pc = "done" /\ reader.op = "status" /\ reader.id >= nextId)
          => ~reader.status.found

\* C26: whenever the broker is connected, a Submit that has ended has
\* published exactly one task message, routed by the job's media type and
\* carrying the job's id, evidence id and media type.
C26_SubmitPublishesOneTask ==
    (submit.pc = "done" /\ mq_ready) =>
        /\ Len(submit.published) = 1
        /\ submit.published[1].routing_key = task_routing_key(submit.analysis_type)
        /\ submit.published[1].analysis_id = submit.id
        /\ submit.published[1].evidence_id = submit.evidence_id
        /\ submit.published[1].analysis_type = submit.analysis_type

\* C27: in the declared topology a message that is dead-lettered from the task
\* queue of any media type is in the shared dead-letter queue, and a task
\* published with a media type's routing key is in exactly that type's queue
\* until a consumer rejects it.
C27_BrokerTopology ==
    /\ \A m \in broker.dead : m \in broker.queues["dead.letter.queue"]
    /\ \A m \in broker.sent \ broker.dead :
         \A q \in TaskQueues : m \in broker.queues[q] <=> q = task_queue(m.type)

\* C28: for the cache adapter and the durable-store adapter at most one
\* execution of initialize is in progress at any time, however the readiness
\* probes and the scheduled initialisation tasks interleave.
C28_OneConnectionAttempt ==
    \A a \in LazyAdapters : init[a].attempts <= 1

\* An initialisation is in progress for an adapter, a second scheduled task
\* has returned early, and a further task is still scheduled.
C28_Witness ==
    \E a \in LazyAdapters :
        /\ init[a].attempts = 1 /\ init[a].initializing
        /\ init[a].skipped /\ init[a].scheduled > 0

\* C29: for a job in the registry, UpdateStatus applies the new status and
\* progress to the registry entry before its first suspension point, and the
\* entry stays so until the call has returned, whether the writes to the
\* cache and the durable store succeed, fail or are skipped.
C29_RegistryUpdatedFirst ==
    \A j \in Ids :
        (active_analyses[j].exists /\ worker[j].pc # "idle") =>
            /\ active_analyses[j].status = worker[j].status
            /\ worker[j].progress # NoProgress
                  => active_analyses[j].progress = worker[j].progress

\* An update to processing with progress 10 has returned; its cache write
\* failed, its store write was skipped, and the registry holds the update.
C29_Witness ==
    \E j \in Ids :
        /\ worker[j].pc = "done" /\ worker[j].status = "processing"
        /\ worker[j].progress = 10 /\ updates[j] = 1
        /\ active_analyses[j].exists /\ active_analyses[j].status = "processing"
        /\ active_analyses[j].progress = 10
        /\ cacheStatus[j].exists /\ cacheStatus[j].status = "pending"
        /\ ~dbRequests[j].exists

\* C30: a GetResult that runs while UpdateStatus(id, completed, result=R) is in
\* flight and whose status read reports completed from the registry returns
\* the serialised R: once the registry status is completed, the in-memory copy
\* of the result is readable.
C30_ConcurrentReaderGetsResult ==
    (/\ reader.pc = "done" /\ reader.op = "result" /\ reader.afterSubmit
     /\ reader.status.found /\ reader.status.status = "completed"
     /\ reader.status.tier = "registry"
     /\ updates[reader.id] = 1
     /\ stores_results(worker[reader.id].status, worker[reader.id].results)
     /\ worker[reader.id].pc \notin {"idle", "done"}
     /\ ~dbConnected)
    => reader.ret = serialize_analysis_result(worker[reader.id].results)

\* C31: for a job whose status read reports completed, GetResult returns no
\* result only when no tier holds one: when the reads of the cache and of the
\* durable store miss, the copy held in the registry entry is returned.
C31_MissFallsThroughToRegistry ==
    [][(/\ reader.pc = "db_results" /\ reader'.pc = "done"
        /\ reader.op = "result"
        /\ reader.status.found /\ reader.status.status = "completed"
        /\ active_analyses[reader.id].exists
        /\ active_analyses[reader.id].results # NoResult)
       => reader'.ret # NoResult]_vars

\* C32: with the backend reachable, once a readiness probe has been issued on
\* an adapter that is not connected, inside the running event loop or outside
\* it, the adapter eventually reports ready.
C32_ProbeLeadsToReady ==
    \A a \in LazyAdapters : (init[a].probed # "none") ~> connected(a)

\* C33: when the broker connection made at startup failed, the first later
\* use of the broker, a Submit or a Deliver, re-establishes it: once such a
\* call has returned the broker is connected.
C33_UseReconnectsBroker ==
    (submit.pc = "done" \/ deliver.pc = "done") => mq_ready

\* The background task of a job; the processor returns one result.  The broker
\* step of Deliver is not among its steps: a job has a task only when
\* submit_analysis returned, which it does only with the broker not connected.
NextProcess ==
    \/ \E j \in Ids : ProcessBegin(j)
    \/ \E j \in Ids, ok \in BOOLEAN : ProcessEnd(j, ok)
    \/ WorkerResumes
    \/ \E j \in Ids, e \in EvidenceIds : ProcessDeliver(j, e, ScenarioResult)
    \/ DeliverHttp

\* Submissions, the background tasks they start, and cancellations.
NextProcessing == NextSubmit \/ NextProcess \/ NextCancel

SpecProcess == Init /\ [][NextProcessing]_vars

\* C34: the background task of a job issues UpdateStatus(processing) first and
\* then one terminal UpdateStatus, completed or failed, and no update after
\* it; Deliver starts only after the update to completed has returned, never
\* for a job reported failed.
C34_WorkerUpdateOrder ==
    [][\A j \in Ids :
         /\ (updates[j] = 0 /\ updates'[j] = 1) => worker'[j].status = "processing"
         /\ (updates[j] >= 1 /\ updates'[j] = updates[j] + 1)
               => /\ worker[j].status = "processing" /\ worker[j].pc = "done"
                  /\ worker'[j].status \in {"completed", "failed"}
         /\ delivers'[j] = delivers[j] + 1
               => /\ worker[j].status = "completed" /\ worker[j].pc = "done"
                  /\ deliver'.id = j]_vars

\* A job was made processing, then completed, and its result has been sent.
C34_Witness ==
    \E j \in Ids :
        /\ updates[j] = 2 /\ worker[j].pc = "done" /\ worker[j].status = "completed"
        /\ deliver.pc = "done" /\ deliver.id = j /\ callbacks[j] = 1

\* C35: a Cancel and a worker UpdateStatus of the same job ran concurrently
\* with the cache and the durable store connected and no I/O error; once both
\* calls have returned and the worker has issued its last update, the cache
\* and the durable store hold the same status for the job.
C35_TiersAgreeAfterRace ==
    \A j \in Ids :
        (/\ cacheConnected /\ dbConnected /\ faults = 0
         /\ cancelOk[j] /\ updates[j] = 2 /\ worker[j].pc = "done"
         /\ \A c \in Cancellers : cancel[c].pc \in {"idle", "done"}
         /\ cacheStatus[j].exists /\ dbRequests[j].exists)
        => cacheStatus[j].status = dbRequests[j].status

\* C36: a GetStatus issued after Cancel succeeded for the job reports status
\* cancelled, whatever the availability of the cache and the durable store,
\* in a run without I/O errors.
C36_CancelledStaysVisible ==
    (reader.pc = "done" /\ reader.op = "status" /\ reader.afterCancel /\ faults = 0)
    => (reader.status.found /\ reader.status.status = "cancelled")

\* C37: GetQueueStatus changes no state; its pending, processing, completed
\* and failed counts are the numbers of registry entries in those statuses at
\* the time of the call, its counts by media type are the numbers of entries of
\* each type, and its mean processing time ranges over exactly the entries
\* that have both started_at and completed_at.
C37_QueueStatusFromRegistry ==
    [][(reader'.op = "queue" /\ reader' # reader) =>
         LET q == reader'.queue
             n(st) == Cardinality({j \in Ids : /\ active_analyses[j].exists
                                               /\ active_analyses[j].status = st})
         IN /\ active_analyses' = active_analyses /\ stores' = stores
            /\ q.pending = n("pending") /\ q.processing = n("processing")
            /\ q.completed = n("completed") /\ q.failed = n("failed")
            /\ \A t \in MediaTypes :
                 q.by_type[t] = Cardinality({j \in Ids : /\ active_analyses[j].exists
                                                         /\ active_analyses[j].analysis_type = t})
            /\ q.timed = {j \in Ids : /\ active_analyses[j].exists
                                      /\ active_analyses[j].started_at # 0
                                      /\ active_analyses[j].completed_at # 0}]_vars

\* C38: a Submit that raised to its caller leaves no trace of the job: no
\* registry entry, no cache record and no durable-store record for its id.
C38_FailedSubmitLeavesNoTrace ==
    \A j \in Ids :
        submitted[j] = "error" =>
            /\ ~active_analyses[j].exists
            /\ ~cacheStatus[j].exists
            /\ ~dbRequests[j].exists

\* C39: of any number of Cancel calls for one id, in sequence or interleaved
\* with each other and with worker updates, at most one returns success: a
\* Cancel returns success only if none has returned success for the id before.
C39_AtMostOneCancelSucceeds ==
    [][\A c \in Cancellers :
         (cancel[c].pc # "done" /\ cancel'[c].pc = "done" /\ cancel'[c].ret)
         => ~cancelOk[cancel'[c].id]]_vars

\* Two Cancel calls of one id overlapped and both passed the status check, a
\* worker update having reset the status in between; one returned success and
\* the other, finding the entry gone at its del, returned failure.
C39_Witness ==
    \E c, d \in Cancellers :
      /\ c # d /\ cancel[c].id = cancel[d].id
      /\ cancel[c].pc = "done" /\ cancel[c].ret
      /\ cancel[d].pc = "done" /\ ~cancel[d].ret
      /\ cancel[d].startStatus \in NonTerminal /\ ~cancel[d].priorOk
      /\ ~cancel[c].solo /\ ~cancel[d].solo

\* C40: once Cancel has succeeded for a job, no result of the job is delivered
\* upstream: no Deliver starts for it and no HTTP callback is sent for it,
\* even when the background task finishes its analysis afterwards.
C40_NoDeliveryAfterCancel ==
    [][\A j \in Ids :
         cancelOk[j] => /\ delivers'[j] = delivers[j]
                        /\ callbacks'[j] = callbacks[j]]_vars
====
